---- MODULE Spec2Model ----
(***************************************************************************)
(* Model of the weather ETL pipeline: ingestion.py (ingest_eccc,           *)
(* ingest_openmeteo), transformation.py (merge_flat, to_flat_schema),      *)
(* loading.py (to_csv, export) and run_etl.py (main).                      *)
(*                                                                         *)
(* A DataFrame is a record [columns, rows]: columns is the ordered         *)
(* sequence of column names, rows a sequence of functions from column      *)
(* name to cell.  A cell is a sequence: <<>> is an absent value (NaN, NaT, *)
(* None, pd.NA), <<v>> a present value v, and <<0, 0>> a text that no      *)
(* parser accepts.  A calendar date is its day of the month (the year and  *)
(* month, 2024-03, are common to all dates of the model); an ISO date      *)
(* string is the two-digit sequence of the day.                            *)
(***************************************************************************)
EXTENDS Integers, Sequences, FiniteSets, TLC

VARIABLES pc, eccc_df, fc_df, flat_df, raised, csv_file, exported, trace, now

vars == <<pc, eccc_df, fc_df, flat_df, raised, csv_file, exported, trace, now>>

(* ------------------------------ bounds --------------------------------- *)

\* Total number of rows of the two inputs of merge_flat.
MaxRows == 3
\* Calendar days are 9 .. MaxDay (one-digit and two-digit days).
MaxDay == 10
\* Ingestion timestamps are 8 .. MaxStamp (seconds of the wall clock).
MaxStamp == 9
\* Data rows of the ECCC CSV file.
MaxCsvRows == 1
\* Entries of the Open-Meteo "daily" arrays.
MaxFcDays == 1

Days == 9..MaxDay
Stamps == 8..MaxStamp

(* ------------------------------- cells --------------------------------- *)

NaN == <<>>
Malformed == <<0, 0>>
notna(c) == c # NaN
Range(s) == {s[i] : i \in DOMAIN s}

FLAT_COLUMNS ==
    <<"date", "data_type", "source", "ingested_at",
      "obs_tmax_c", "obs_tmin_c", "obs_precip_mm",
      "fc_tmax_c", "fc_tmin_c", "fc_precip_mm">>

OBS_COLUMNS == {"obs_tmax_c", "obs_tmin_c", "obs_precip_mm"}
FC_COLUMNS == {"fc_tmax_c", "fc_tmin_c", "fc_precip_mm"}

\* suffixes=("_hist", "_fc"): the name an overlapping column gets.
HistName ==
    [data_type |-> "data_type_hist", source |-> "source_hist",
     ingested_at |-> "ingested_at_hist",
     obs_tmax_c |-> "obs_tmax_c_hist", obs_tmin_c |-> "obs_tmin_c_hist",
     obs_precip_mm |-> "obs_precip_mm_hist",
     fc_tmax_c |-> "fc_tmax_c_hist", fc_tmin_c |-> "fc_tmin_c_hist",
     fc_precip_mm |-> "fc_precip_mm_hist"]

FcName ==
    [data_type |-> "data_type_fc", source |-> "source_fc",
     ingested_at |-> "ingested_at_fc",
     obs_tmax_c |-> "obs_tmax_c_fc", obs_tmin_c |-> "obs_tmin_c_fc",
     obs_precip_mm |-> "obs_precip_mm_fc",
     fc_tmax_c |-> "fc_tmax_c_fc", fc_tmin_c |-> "fc_tmin_c_fc",
     fc_precip_mm |-> "fc_precip_mm_fc"]

(* ----------------------------- DataFrames ------------------------------ *)

\* The value of a name that holds no DataFrame (unassigned, or the call raised).
NoFrame == [unset |-> TRUE]

\* In the definitions below "x \in {e}" names the value of e, computed once.

\* merged.get(c) of one row: the cell, or None (here NaN: assigned to a column,
\* None is an absent value in every row) when the frame has no such column.
rget(r, c) == IF c \in DOMAIN r THEN r[c] ELSE NaN

(* ------------------------- pd.merge (outer join) ----------------------- *)

\* The join as an inner join (how="inner").
How_inner == "inner"

\* how="outer" of the pd.merge call.
How == "outer"

\* Order of the join keys in the merged frame: dates ascending, then texts
\* that are no date, then null keys.
KeyRank(k) ==
    IF Len(k) = 1 THEN k[1] ELSE IF k = Malformed THEN MaxDay + 1 ELSE MaxDay + 2

RECURSIVE SortKeys(_)
SortKeys(S) ==
    IF S = {} THEN <<>>
    ELSE LET k == CHOOSE x \in S : \A y \in S : KeyRank(x) <= KeyRank(y)
         IN  <<k>> \o SortKeys(S \ {k})

RowsWithKey(df, k) ==
    SelectSeq([i \in 1..Len(df.rows) |-> i], LAMBDA i : df.rows[i]["date"] = k)

\* The rows of one key: every left row with every right row (null keys match
\* each other); a key of one side only keeps its rows in an outer join.
PairsOfKey(left, right, k) ==
    CHOOSE ps \in
      {IF L # <<>> /\ R # <<>>
       THEN [n \in 1..(Len(L) * Len(R)) |->
               <<L[((n - 1) \div Len(R)) + 1], R[((n - 1) % Len(R)) + 1]>>]
       ELSE IF L # <<>>
       THEN (IF How \in {"outer", "left"} THEN [n \in 1..Len(L) |-> <<L[n], 0>>] ELSE <<>>)
       ELSE (IF How \in {"outer", "right"} THEN [n \in 1..Len(R) |-> <<0, R[n]>>] ELSE <<>>) :
          L \in {RowsWithKey(left, k)}, R \in {RowsWithKey(right, k)}} : TRUE

RECURSIVE JoinPairs(_, _, _)
JoinPairs(left, right, keys) ==
    IF keys = <<>> THEN <<>>
    ELSE PairsOfKey(left, right, Head(keys)) \o JoinPairs(left, right, Tail(keys))

\* The name a column of the left / right frame has in the merged frame.
lname(left, right, c) ==
    IF c # "date" /\ c \in Range(left.columns) \cap Range(right.columns)
    THEN HistName[c] ELSE c

rname(left, right, c) ==
    IF c # "date" /\ c \in Range(left.columns) \cap Range(right.columns)
    THEN FcName[c] ELSE c

\* The column a name of the merged frame stands for.
Unsuffixed ==
    [m \in Range(FLAT_COLUMNS) \cup {HistName[c] : c \in DOMAIN HistName}
                               \cup {FcName[c] : c \in DOMAIN FcName} |->
        CHOOSE c \in Range(FLAT_COLUMNS) :
            \/ m = c
            \/ c \in DOMAIN HistName /\ m \in {HistName[c], FcName[c]}]

\* The merged row of the left row p[1] and the right row p[2] (0: no row);
\* both is the set of the columns the two frames share, the key aside.
merged_row(left, right, p, both) ==
    [m \in {"date"} |->
        IF p[1] > 0 THEN left.rows[p[1]]["date"] ELSE right.rows[p[2]]["date"]]
    @@ [m \in {IF c \in both THEN HistName[c] ELSE c : c \in Range(left.columns) \ {"date"}} |->
          IF p[1] > 0 THEN left.rows[p[1]][Unsuffixed[m]] ELSE NaN]
    @@ [m \in {IF c \in both THEN FcName[c] ELSE c : c \in Range(right.columns) \ {"date"}} |->
          IF p[2] > 0 THEN right.rows[p[2]][Unsuffixed[m]] ELSE NaN]

\* pd.merge(left, right, on="date", how=How, suffixes=("_hist", "_fc")):
\* KeyError when a frame has no date column.
pd_merge(left, right) ==
    IF "date" \notin Range(left.columns) \/ "date" \notin Range(right.columns)
    THEN [raised |-> "KeyError", df |-> NoFrame]
    ELSE CHOOSE res \in
      {[raised |-> "",
        df |-> [columns |-> [n \in 1..Len(left.columns) |-> lname(left, right, left.columns[n])]
                            \o [n \in 1..Len(rcols) |-> rname(left, right, rcols[n])],
                rows |-> [n \in 1..Len(pairs) |-> merged_row(left, right, pairs[n], both)]]] :
          rcols \in {SelectSeq(right.columns, LAMBDA c : c # "date")},
          both \in {(Range(left.columns) \cap Range(right.columns)) \ {"date"}},
          pairs \in {JoinPairs(left, right,
                        SortKeys({left.rows[i]["date"] : i \in 1..Len(left.rows)}
                                 \cup {right.rows[i]["date"] : i \in 1..Len(right.rows)}))}} :
      TRUE

(* --------------------------- to_flat_schema ---------------------------- *)

\* date.isoformat(): the day, zero-padded to two digits.
isoformat(d) == <<d \div 10, d % 10>>

\* Order of two strings of digits, character by character.
RECURSIVE StrLe(_, _)
StrLe(s, t) ==
    IF s = <<>> THEN TRUE
    ELSE IF t = <<>> THEN FALSE
    ELSE IF Head(s) # Head(t) THEN Head(s) < Head(t)
    ELSE StrLe(Tail(s), Tail(t))

\* pd.to_datetime(x, errors="coerce").dt.date.astype("string") of one cell:
\* a date becomes its ISO string, anything else pd.NA.
DateString(c) == IF Len(c) = 1 THEN <<isoformat(c[1])>> ELSE NaN

\* The permutations of 1 .. n (those of the frames within MaxRows rows are
\* tabulated).
PermsOf(n) == {p \in [1..n -> 1..n] : \A i, j \in 1..n : i # j => p[i] # p[j]}

PermTable == [n \in 0..MaxRows |-> PermsOf(n)]

Perms(n) == IF n <= MaxRows THEN PermTable[n] ELSE PermsOf(n)

\* sort_values(..., ascending=False).
Ascending_off == FALSE

\* The ascending parameter of sort_values, left at its default.
Ascending == TRUE

\* The orders sort_values(by="date") may give the rows (kind="quicksort",
\* na_position="last"): the present dates ascending, ties in an order the
\* sort does not promise (quicksort is not stable), then the rows without a
\* date in the order they had.
SortIndexers(dates) ==
    UNION {{p \in Perms(Len(dates)) :
              /\ \A i \in 1..k : notna(dates[p[i]])
              /\ \A i, j \in 1..k :
                    i < j => IF Ascending THEN StrLe(dates[p[i]][1], dates[p[j]][1])
                             ELSE StrLe(dates[p[j]][1], dates[p[i]][1])
              /\ \A i, j \in (k + 1)..Len(dates) : i < j => p[i] < p[j]} :
            k \in {Cardinality({i \in 1..Len(dates) : notna(dates[i])})}}

sort_values(df) ==
    {[columns |-> df.columns, rows |-> [i \in 1..Len(df.rows) |-> df.rows[p[i]]]] :
        p \in SortIndexers([i \in 1..Len(df.rows) |-> df.rows[i]["date"]])}

\* normalized with the rows of an unparseable date dropped (dropna on date).
normalized_dropna(df) ==
    CHOOSE out \in
      {[columns |-> FLAT_COLUMNS,
        rows |-> [j \in 1..Len(kept) |->
                    [c \in Range(FLAT_COLUMNS) |->
                       IF c = "date" THEN <<isoformat(kept[j]["date"][1])>>
                       ELSE rget(kept[j], c)]]] :
          kept \in {SelectSeq(df.rows, LAMBDA r : Len(rget(r, "date")) = 1)}} : TRUE

\* to_flat_schema(df) up to the final sort: the missing columns added as
\* NaN, the columns in the order of FLAT_COLUMNS, the dates as ISO strings.
normalized(df) ==
    [columns |-> FLAT_COLUMNS,
     rows |-> [i \in 1..Len(df.rows) |->
                 [c \in Range(FLAT_COLUMNS) |->
                    IF c = "date" THEN DateString(rget(df.rows[i], c))
                    ELSE rget(df.rows[i], c)]]]

\* to_flat_schema(df): the outcomes of the final sort.
to_flat_schema(df) == UNION {sort_values(out) : out \in {normalized(df)}}

(* ------------------------------ merge_flat ----------------------------- *)

\* The calls without errors="coerce".
TsErrors_default == "raise"

\* errors="coerce" of the two pd.to_datetime calls of step 2 (the default,
\* "raise", raises ValueError on a text that is no timestamp).
TsErrors == "coerce"

\* pd.to_datetime(x, errors="coerce") of one cell: a text that is no
\* timestamp becomes NaT.
ParseTs(c) == IF Len(c) = 1 THEN c ELSE NaN

\* b > a of two Timestamps: False whenever one of them is NaT.
TsGt(x, y) == notna(x) /\ notna(y) /\ x[1] > y[1]

\* Python's max(a, b): b when b > a, else a.
pymax(a, b) == IF TsGt(b, a) THEN b ELSE a

\* The lambda given to Series.combine.
latest(a, b) == IF notna(a) \/ notna(b) THEN pymax(a, b) ELSE NaN

\* .dt.strftime("%Y-%m-%d %H:%M:%S") of one cell: NaT becomes NaN.
strftime(c) == IF Len(c) = 1 THEN c ELSE NaN

\* Step 2 for one merged row.
ingested_at_of(r) ==
    strftime(latest(ParseTs(rget(r, "ingested_at_hist")), ParseTs(rget(r, "ingested_at_fc"))))

\* The two suffixes exchanged.
ValueSource_swapped(c) == IF c \in OBS_COLUMNS THEN FcName[c] ELSE HistName[c]

\* Steps 3 and 4: the merged column a flat field is taken from.
ValueSource(c) == IF c \in OBS_COLUMNS THEN HistName[c] ELSE FcName[c]

value_of(r, c) == rget(r, ValueSource(c))

\* has_hist looking at the maximum temperature only.
has_hist_tmax_only(r) == notna(rget(r, "obs_tmax_c_hist"))

\* Step 5, on the columns steps 3 and 4 assigned.
has_hist(r) == \E c \in OBS_COLUMNS : notna(value_of(r, c))

has_fc(r) == \E c \in FC_COLUMNS : notna(value_of(r, c))

\* The precedence reversed: forecast before historical.
data_type_forecast_first(r) ==
    IF \E c \in FC_COLUMNS : notna(rget(r, FcName[c])) THEN <<"forecast">>
    ELSE IF \E c \in OBS_COLUMNS : notna(rget(r, HistName[c])) THEN <<"historical">>
    ELSE <<"unknown">>

data_type_of(r) ==
    IF has_hist(r) THEN <<"historical">>
    ELSE IF has_fc(r) THEN <<"forecast">> ELSE <<"unknown">>

source_of(r) ==
    IF has_hist(r) THEN rget(r, "source_hist")
    ELSE IF has_fc(r) THEN rget(r, "source_fc") ELSE NaN

\* The columns steps 2 to 5 assign, in the order of the assignments.
ASSIGNED ==
    <<"ingested_at", "obs_tmax_c", "obs_tmin_c", "obs_precip_mm",
      "fc_tmax_c", "fc_tmin_c", "fc_precip_mm", "data_type", "source">>

\* Steps 2 to 5: each assignment replaces the column or appends it.
resolved(df) ==
    [columns |-> df.columns \o SelectSeq(ASSIGNED, LAMBDA c : c \notin Range(df.columns)),
     rows |-> [i \in 1..Len(df.rows) |->
                 [c \in Range(df.columns) \cup Range(ASSIGNED) |->
                    IF c = "ingested_at" THEN ingested_at_of(df.rows[i])
                    ELSE IF c \in OBS_COLUMNS \cup FC_COLUMNS THEN value_of(df.rows[i], c)
                    ELSE IF c = "data_type" THEN data_type_of(df.rows[i])
                    ELSE IF c = "source" THEN source_of(df.rows[i])
                    ELSE df.rows[i][c]]]]

\* c.endswith("_hist") or c.endswith("_fc")
IsTemporary(c) == c \in Range(HistName) \cup Range(FcName)

\* Step 6.
drop_temporary(df) ==
    [columns |-> SelectSeq(df.columns, LAMBDA c : ~IsTemporary(c)),
     rows |-> [i \in 1..Len(df.rows) |->
                 [c \in {x \in Range(df.columns) : ~IsTemporary(x)} |-> df.rows[i][c]]]]

\* merge_flat(eccc_df, fc_df): the set of its outcomes, each the exception
\* raised ("" when none) and the frame returned.  ia_hist is None, and
\* ia_hist.combine an AttributeError, when the merged frame has no column
\* ingested_at_hist.
merge_flat(hist, fc) ==
    UNION {IF m.raised # "" THEN {m}
           ELSE IF "ingested_at_hist" \notin Range(m.df.columns)
           THEN {[raised |-> "AttributeError", df |-> NoFrame]}
           ELSE IF /\ TsErrors # "coerce"
                   /\ \E i \in 1..Len(m.df.rows) :
                         Malformed \in {m.df.rows[i]["ingested_at_hist"],
                                        m.df.rows[i]["ingested_at_fc"]}
           THEN {[raised |-> "ValueError", df |-> NoFrame]}
           ELSE UNION {UNION {{[raised |-> "", df |-> d] : d \in to_flat_schema(s6)} :
                              s6 \in {drop_temporary(s5)}} :
                       s5 \in {resolved(m.df)}} :
             m \in {pd_merge(hist, fc)}}

(* ------------------------- inputs of merge_flat ------------------------ *)

\* Column order of the frames ingest_eccc and ingest_openmeteo build.
ECCC_COLUMNS ==
    <<"date", "obs_tmax_c", "obs_tmin_c", "obs_precip_mm",
      "data_type", "source", "ingested_at",
      "fc_tmax_c", "fc_tmin_c", "fc_precip_mm">>

OPENMETEO_COLUMNS ==
    <<"date", "fc_tmax_c", "fc_tmin_c", "fc_precip_mm",
      "data_type", "source", "ingested_at",
      "obs_tmax_c", "obs_tmin_c", "obs_precip_mm">>

DateCells == {NaN} \cup {<<d>> : d \in Days}
StampCells == {NaN} \cup {<<t>> : t \in Stamps}

\* Which of the three value fields of a row are present.
Patterns == {{1, 2, 3}, {}, {3}}

\* A historical Raw Record: observed values 1, 2, 3 where present; the
\* forecast fields absent, or (stray) carrying the value 7.
HistRow(d, o, ia, stray) ==
    [date |-> d, data_type |-> <<"historical">>, source |-> <<"ECCC">>,
     ingested_at |-> ia,
     obs_tmax_c |-> IF 1 \in o THEN <<1>> ELSE NaN,
     obs_tmin_c |-> IF 2 \in o THEN <<2>> ELSE NaN,
     obs_precip_mm |-> IF 3 \in o THEN <<3>> ELSE NaN,
     fc_tmax_c |-> IF stray THEN <<7>> ELSE NaN,
     fc_tmin_c |-> IF stray THEN <<7>> ELSE NaN,
     fc_precip_mm |-> IF stray THEN <<7>> ELSE NaN]

\* A forecast Raw Record: forecast values 4, 5, 6 where present.
FcRow(d, o, ia, stray) ==
    [date |-> d, data_type |-> <<"forecast">>, source |-> <<"OpenMeteo">>,
     ingested_at |-> ia,
     fc_tmax_c |-> IF 1 \in o THEN <<4>> ELSE NaN,
     fc_tmin_c |-> IF 2 \in o THEN <<5>> ELSE NaN,
     fc_precip_mm |-> IF 3 \in o THEN <<6>> ELSE NaN,
     obs_tmax_c |-> IF stray THEN <<7>> ELSE NaN,
     obs_tmin_c |-> IF stray THEN <<7>> ELSE NaN,
     obs_precip_mm |-> IF stray THEN <<7>> ELSE NaN]

\* The rows drawn: those that differ from the plain row (day 9, all three
\* values, stamp 8, no stray value) in at most one of the four respects.
Choices ==
    {x \in DateCells \X Patterns \X StampCells \X BOOLEAN :
        Cardinality({k \in 1..4 : x[k] # <<<<9>>, {1, 2, 3}, <<8>>, FALSE>>[k]}) <= 1}

HistRows == {HistRow(x[1], x[2], x[3], x[4]) : x \in Choices}
FcRows == {FcRow(x[1], x[2], x[3], x[4]) : x \in Choices}

(* ------------------------ merge_flat on its own ------------------------ *)

InitCommon ==
    /\ pc = "ready" /\ flat_df = NoFrame /\ raised = ""
    /\ csv_file = NoFrame /\ exported = NoFrame /\ trace = <<>> /\ now = 8

\* Two tables of Raw Records, MaxRows rows in all.
InitMerge ==
    /\ InitCommon
    /\ \E n \in 0..MaxRows : \E k \in 0..(MaxRows - n) :
          /\ eccc_df \in {[columns |-> ECCC_COLUMNS, rows |-> rs] : rs \in [1..n -> HistRows]}
          /\ fc_df \in {[columns |-> OPENMETEO_COLUMNS, rows |-> rs] : rs \in [1..k -> FcRows]}

\* One call merge_flat(eccc_df, fc_df).
MergeFlat ==
    /\ pc = "ready"
    /\ \E r \in merge_flat(eccc_df, fc_df) :
          /\ flat_df' = r.df
          /\ raised' = r.raised
    /\ pc' = "done"
    /\ UNCHANGED <<eccc_df, fc_df, csv_file, exported, trace, now>>

SpecMerge == InitMerge /\ [][MergeFlat]_vars

(* ------------- merge_flat on tables of any set of columns -------------- *)

\* The columns a table has: all ten, all but one, only the date, all but
\* the date, none.
ColumnChoices ==
    {Range(FLAT_COLUMNS) \ D :
        D \in {{}} \cup {{c} : c \in Range(FLAT_COLUMNS)}
              \cup {Range(FLAT_COLUMNS), Range(FLAT_COLUMNS) \ {"date"}}}

\* The table with only the columns of keep.
Restrict(df, keep) ==
    [columns |-> SelectSeq(df.columns, LAMBDA c : c \in keep),
     rows |-> [i \in 1..Len(df.rows) |-> [c \in keep |-> df.rows[i][c]]]]

\* Rows with well-formed and with malformed cells: a date, the values
\* present, a timestamp, stray values of the other side, and whether the
\* maximum temperature is a text that is no number.
SchemaChoices ==
    {<<<<9>>, {1, 2, 3}, <<8>>, FALSE, FALSE>>, <<Malformed, {1, 2, 3}, <<9>>, FALSE, FALSE>>,
     <<<<10>>, {1}, Malformed, FALSE, FALSE>>, <<NaN, {}, NaN, TRUE, FALSE>>,
     <<<<9>>, {1, 2}, <<9>>, FALSE, TRUE>>}

SchemaHistRow(x) ==
    IF x[5] THEN [HistRow(x[1], x[2], x[3], x[4]) EXCEPT !["obs_tmax_c"] = Malformed]
    ELSE HistRow(x[1], x[2], x[3], x[4])

SchemaFcRow(x) ==
    IF x[5] THEN [FcRow(x[1], x[2], x[3], x[4]) EXCEPT !["fc_tmax_c"] = Malformed]
    ELSE FcRow(x[1], x[2], x[3], x[4])

\* Tables of at most one row.
InitSchema ==
    /\ InitCommon
    /\ \E n, k \in 0..1 : \E hk, fk \in ColumnChoices :
          /\ eccc_df \in {Restrict([columns |-> ECCC_COLUMNS,
                                    rows |-> [i \in 1..n |-> SchemaHistRow(x)]], hk) :
                             x \in SchemaChoices}
          /\ fc_df \in {Restrict([columns |-> OPENMETEO_COLUMNS,
                                  rows |-> [i \in 1..k |-> SchemaFcRow(x)]], fk) :
                           x \in SchemaChoices}

SpecSchema == InitSchema /\ [][MergeFlat]_vars

(* ------------------------------ ingestion ------------------------------ *)

\* _first_match(df_cols, candidates): the first candidate among the columns,
\* "" standing for the KeyError raised when there is none.
RECURSIVE first_match(_, _)
first_match(df_cols, candidates) ==
    IF candidates = <<>> THEN ""
    ELSE IF Head(candidates) \in df_cols THEN Head(candidates)
    ELSE first_match(df_cols, Tail(candidates))

\* colmap_candidates ("degC" stands for the degree sign and C).
colmap_candidates ==
    [date |-> <<"Date", "Date/Time", "LOCAL_DATE", "date">>,
     tmax |-> <<"Max Temp (degC)", "Maximum Temperature (degC)", "Max Temp (C)",
                "MAX_TEMPERATURE", "Max Temp">>,
     tmin |-> <<"Min Temp (degC)", "Minimum Temperature (degC)", "Min Temp (C)",
                "MIN_TEMPERATURE", "Min Temp">>,
     precip |-> <<"Total Precip (mm)", "Total Rain (mm)", "Total Precipitation (mm)",
                  "TOTAL_PRECIP", "Precipitation">>]

\* _to_series_date of one text: <<d>> is a date, <<d, h>> a date with a time
\* of day; the time of day is dropped, any other text becomes NaT.
to_series_date(c) == IF c = NaN \/ c = Malformed THEN NaN ELSE <<c[1]>>

\* pd.to_numeric(x, errors="coerce") of one cell.
to_numeric(c) == IF Len(c) = 1 THEN c ELSE NaN

\* ingest_eccc(csv_path) at clock t: the exception raised ("" when none) and
\* the frame returned.
ingest_eccc(csv, t) ==
    IF ~csv.exists THEN [raised |-> "FileNotFoundError", df |-> NoFrame]
    ELSE
    LET c_date == first_match(Range(csv.columns), colmap_candidates.date)
        c_tmax == first_match(Range(csv.columns), colmap_candidates.tmax)
        c_tmin == first_match(Range(csv.columns), colmap_candidates.tmin)
        c_precip == first_match(Range(csv.columns), colmap_candidates.precip)
    IN  IF "" \in {c_date, c_tmax, c_tmin, c_precip}
        THEN [raised |-> "KeyError", df |-> NoFrame]
        ELSE [raised |-> "",
              df |-> [columns |-> ECCC_COLUMNS,
                      rows |-> [i \in 1..Len(csv.rows) |->
                         [date |-> to_series_date(csv.rows[i][c_date]),
                          obs_tmax_c |-> to_numeric(csv.rows[i][c_tmax]),
                          obs_tmin_c |-> to_numeric(csv.rows[i][c_tmin]),
                          obs_precip_mm |-> to_numeric(csv.rows[i][c_precip]),
                          data_type |-> <<"historical">>,
                          source |-> <<"ECCC">>,
                          ingested_at |-> <<t>>,
                          fc_tmax_c |-> NaN, fc_tmin_c |-> NaN, fc_precip_mm |-> NaN]]]]

\* daily.get(key, [])
daily_get(daily, key) == IF key \in DOMAIN daily THEN daily[key] ELSE <<>>

\* The guard left out.
no_daily_data_off(times) == FALSE

\* The guard "if not times: raise RuntimeError".
no_daily_data(times) == times = <<>>

\* ingest_openmeteo(lat, lon, days, past_days) at clock t, given the response
\* of the API.
ingest_openmeteo(resp, t) ==
    IF resp.status # 200 THEN [raised |-> "HTTPError", df |-> NoFrame]
    ELSE
    LET daily == IF "daily" \in DOMAIN resp.payload THEN resp.payload.daily ELSE <<>>
        times == daily_get(daily, "time")
        fc_tmax == daily_get(daily, "temperature_2m_max")
        fc_tmin == daily_get(daily, "temperature_2m_min")
        fc_prcp == daily_get(daily, "precipitation_sum")
    IN  IF no_daily_data(times)
        THEN [raised |-> "RuntimeError", df |-> NoFrame]
        ELSE IF {Len(fc_tmax), Len(fc_tmin), Len(fc_prcp)} # {Len(times)}
        THEN [raised |-> "ValueError", df |-> NoFrame]
        ELSE [raised |-> "",
              df |-> [columns |-> OPENMETEO_COLUMNS,
                      rows |-> [i \in 1..Len(times) |->
                         [date |-> to_series_date(times[i]),
                          fc_tmax_c |-> to_numeric(fc_tmax[i]),
                          fc_tmin_c |-> to_numeric(fc_tmin[i]),
                          fc_precip_mm |-> to_numeric(fc_prcp[i]),
                          data_type |-> <<"forecast">>,
                          source |-> <<"OpenMeteo">>,
                          ingested_at |-> <<t>>,
                          obs_tmax_c |-> NaN, obs_tmin_c |-> NaN, obs_precip_mm |-> NaN]]]]

(* ----------------------- what the pipeline is given -------------------- *)

\* Header lines of the CSV file: two naming conventions, one with two date
\* columns, one without precipitation, one without a date.
CsvHeaders ==
    {<<"Date/Time", "Max Temp (degC)", "Min Temp (degC)", "Total Precip (mm)">>,
     <<"LOCAL_DATE", "MAX_TEMPERATURE", "MIN_TEMPERATURE", "TOTAL_PRECIP">>,
     <<"Date/Time", "Max Temp (degC)", "Min Temp (degC)">>,
     <<"Max Temp (degC)", "Min Temp (degC)", "Total Precip (mm)">>}

\* The texts of one CSV line: the date, the three measurements; a line
\* differs from the plain one in its date or in its measurements.
CsvLines ==
    {x \in ({<<d>> : d \in Days} \cup {<<9, 12>>, Malformed})
             \X {<<<<1>>, <<2>>, <<3>>>>, <<Malformed, NaN, <<3>>>>, <<NaN, NaN, NaN>>} :
        x[1] = <<9>> \/ x[2] = <<<<1>>, <<2>>, <<3>>>>}

CsvRow(h, line) ==
    [c \in Range(h) |->
        IF c \in Range(colmap_candidates.date) THEN line[1]
        ELSE IF c \in Range(colmap_candidates.tmax) THEN line[2][1]
        ELSE IF c \in Range(colmap_candidates.tmin) THEN line[2][2]
        ELSE line[2][3]]

CsvFiles ==
    {[exists |-> FALSE, columns |-> <<>>, rows |-> <<>>]}
    \cup UNION {{[exists |-> TRUE, columns |-> h,
                  rows |-> [i \in 1..n |-> CsvRow(h, ls[i])]] :
                    ls \in [1..n -> CsvLines]} :
                  h \in CsvHeaders, n \in 0..MaxCsvRows}

\* One entry of the daily arrays: the time, the three values (None is NaN).
FcEntries ==
    {x \in {<<d>> : d \in Days}
             \X {<<<<4>>, <<5>>, <<6>>>>, <<NaN, <<5>>, <<6>>>>, <<NaN, NaN, NaN>>} :
        x[1] = <<9>> \/ x[2] = <<<<4>>, <<5>>, <<6>>>>}

DailyOf(es) ==
    [time |-> [i \in 1..Len(es) |-> es[i][1]],
     temperature_2m_max |-> [i \in 1..Len(es) |-> es[i][2][1]],
     temperature_2m_min |-> [i \in 1..Len(es) |-> es[i][2][2]],
     precipitation_sum |-> [i \in 1..Len(es) |-> es[i][2][3]]]

\* Responses: an HTTP error, a payload without "daily", daily arrays of 0 to
\* MaxFcDays entries, and the same without the precipitation array.
Responses ==
    {[status |-> 500, payload |-> [error |-> TRUE]],
     [status |-> 200, payload |-> [error |-> TRUE]]}
    \cup UNION {{[status |-> 200, payload |-> [daily |-> DailyOf(es)]] :
                    es \in [1..n -> FcEntries]} : n \in 0..MaxFcDays}
    \cup UNION {{[status |-> 200,
                  payload |-> [daily |-> [k \in {"time", "temperature_2m_max",
                                                  "temperature_2m_min"} |-> DailyOf(es)[k]]]] :
                    es \in [1..n -> FcEntries]} : n \in 1..1}

(* ---------------------------- run_etl.main ----------------------------- *)

Init ==
    /\ pc = "ingest_eccc"
    /\ eccc_df = NoFrame /\ fc_df = NoFrame /\ flat_df = NoFrame
    /\ raised = "" /\ csv_file = NoFrame /\ exported = NoFrame
    /\ trace = <<>> /\ now = 8

\* eccc_df = ingest_eccc(args.eccc_csv); an exception ends the run.
IngestEccc ==
    /\ pc = "ingest_eccc"
    /\ \E csv \in CsvFiles, t \in now..MaxStamp :
          LET r == ingest_eccc(csv, t)
          IN  /\ now' = t
              /\ eccc_df' = r.df
              /\ raised' = r.raised
              /\ pc' = IF r.raised = "" THEN "ingest_openmeteo" ELSE "ingestion_failed"
    /\ trace' = Append(trace, "ingest_eccc")
    /\ UNCHANGED <<fc_df, flat_df, csv_file, exported>>

\* fc_df = ingest_openmeteo(...); an exception ends the run.
IngestOpenMeteo ==
    /\ pc = "ingest_openmeteo"
    /\ \E resp \in Responses, t \in now..MaxStamp :
          LET r == ingest_openmeteo(resp, t)
          IN  /\ now' = t
              /\ fc_df' = r.df
              /\ raised' = r.raised
              /\ pc' = IF r.raised = "" THEN "transform" ELSE "ingestion_failed"
    /\ trace' = Append(trace, "ingest_openmeteo")
    /\ UNCHANGED <<eccc_df, flat_df, csv_file, exported>>

\* flat_df = merge_flat(eccc_df, fc_df); its exceptions are not caught.
Transform ==
    /\ pc = "transform"
    /\ \E r \in merge_flat(eccc_df, fc_df) :
          /\ flat_df' = r.df
          /\ raised' = r.raised
          /\ pc' = IF r.raised = "" THEN "to_csv" ELSE "crashed"
    /\ trace' = Append(trace, "merge_flat")
    /\ UNCHANGED <<eccc_df, fc_df, csv_file, exported, now>>

\* out_path = to_csv(flat_df, args.out); the write may fail (OSError).
ToCsv ==
    /\ pc = "to_csv"
    /\ \E ok \in BOOLEAN :
          /\ csv_file' = IF ok THEN flat_df ELSE NoFrame
          /\ raised' = IF ok THEN "" ELSE "OSError"
          /\ pc' = IF ok THEN "export" ELSE "crashed"
    /\ trace' = Append(trace, "to_csv")
    /\ UNCHANGED <<eccc_df, fc_df, flat_df, exported, now>>

\* export(flat_df, api_url): the payload of the (simulated) POST.
Export ==
    /\ pc = "export"
    /\ exported' = flat_df
    /\ pc' = "finished"
    /\ trace' = Append(trace, "export")
    /\ UNCHANGED <<eccc_df, fc_df, flat_df, raised, csv_file, now>>

Next == IngestEccc \/ IngestOpenMeteo \/ Transform \/ ToCsv \/ Export

Spec == Init /\ [][Next]_vars

(* ======================================================================= *)
(* The claims.  Under SpecMerge and SpecSchema the inputs of the call stay *)
(* in eccc_df and fc_df and its outcome is in raised and flat_df once      *)
(* pc = "done".                                                            *)
(* ======================================================================= *)

Returned == pc = "done" /\ raised = ""

HasDate(df) == "date" \in Range(df.columns)

\* The input rows whose date cell is k.
HistOn(k) == {i \in 1..Len(eccc_df.rows) : eccc_df.rows[i]["date"] = k}
FcOn(k) == {i \in 1..Len(fc_df.rows) : fc_df.rows[i]["date"] = k}

\* The output rows whose date is s.
OutOn(s) == {n \in 1..Len(flat_df.rows) : flat_df.rows[n]["date"] = s}

\* The calendar day an ISO string names.
DayOf(s) == IF Len(s) = 1 THEN s[1] ELSE 10 * s[1] + s[2]

\* C1 as claimed: for every date d of the historical or of the forecast
\* input the output of merge_flat holds exactly one row of date d, also when
\* d appears in both inputs or several times in one.
C1_ExactlyOneRowPerDate ==
    Returned =>
        \A d \in Days :
            (HistOn(<<d>>) \cup FcOn(<<d>>) # {}) =>
                Cardinality(OutOn(<<isoformat(d)>>)) = 1

\* C1 as amended: the output holds one row of date d per pair of a
\* historical and a forecast row of date d, and the rows of d themselves
\* when only one input has the date: at least one row, and exactly one when
\* d appears at most once in each input.
C1_OneRowPerJoinPair ==
    (pc = "done") =>
        /\ raised = ""
        /\ \A d \in Days :
              Cardinality(OutOn(<<isoformat(d)>>)) =
                 IF HistOn(<<d>>) # {} /\ FcOn(<<d>>) # {}
                 THEN Cardinality(HistOn(<<d>>)) * Cardinality(FcOn(<<d>>))
                 ELSE Cardinality(HistOn(<<d>>)) + Cardinality(FcOn(<<d>>))

\* A date twice in the historical input and once in the forecast input: two
\* output rows.
C1_Witness ==
    /\ Returned
    /\ \E d \in Days :
          /\ Cardinality(HistOn(<<d>>)) = 2 /\ Cardinality(FcOn(<<d>>)) = 1
          /\ Cardinality(OutOn(<<isoformat(d)>>)) = 2

\* The timestamp a cell holds: a text that is no timestamp holds none.
StampOf(c) == IF Len(c) = 1 THEN c ELSE NaN

\* The timestamps one side has for the date cell k (none without a row).
HistStamps(k) ==
    IF HistOn(k) = {} THEN {NaN} ELSE {StampOf(eccc_df.rows[i]["ingested_at"]) : i \in HistOn(k)}
FcStamps(k) ==
    IF FcOn(k) = {} THEN {NaN} ELSE {StampOf(fc_df.rows[i]["ingested_at"]) : i \in FcOn(k)}

\* The later of both, the one present, or none.
ThreeWay(a, b) ==
    IF notna(a) /\ notna(b) THEN (IF b[1] > a[1] THEN b ELSE a)
    ELSE IF notna(a) THEN a ELSE b

\* C2: the ingested_at of every output row is the later of the two sides'
\* timestamps for its date when both have one, the timestamp of the side
\* that has one (historical or forecast) when only one has, absent when
\* neither has.
C2_IngestedAtThreeWay ==
    Returned =>
        \A n \in 1..Len(flat_df.rows) :
            \E k \in DateCells :
                /\ DateString(k) = flat_df.rows[n]["date"]
                /\ \E a \in HistStamps(k), b \in FcStamps(k) :
                      flat_df.rows[n]["ingested_at"] = ThreeWay(a, b)

\* A forecast row with a timestamp on a date the historical input does not
\* have, and its output row without a timestamp.
C2_Witness ==
    /\ Returned
    /\ \E d \in Days :
          /\ HistOn(<<d>>) = {}
          /\ \A i \in FcOn(<<d>>) : Len(fc_df.rows[i]["ingested_at"]) = 1
          /\ \E n \in OutOn(<<isoformat(d)>>) : flat_df.rows[n]["ingested_at"] = NaN

\* C3: in every output row the three observed fields are those of a
\* historical input row of its date, or absent when the historical input has
\* no row of that date, and the three forecast fields are those of a forecast
\* input row of its date, or absent when there is none; what the forecast
\* input carries in obs_* and the historical input in fc_* is never used.
C3_FieldIsolation ==
    Returned =>
        \A n \in 1..Len(flat_df.rows) :
            \E k \in DateCells :
                /\ DateString(k) = flat_df.rows[n]["date"]
                /\ IF HistOn(k) = {}
                   THEN \A c \in OBS_COLUMNS : flat_df.rows[n][c] = NaN
                   ELSE \E i \in HistOn(k) :
                           \A c \in OBS_COLUMNS : flat_df.rows[n][c] = eccc_df.rows[i][c]
                /\ IF FcOn(k) = {}
                   THEN \A c \in FC_COLUMNS : flat_df.rows[n][c] = NaN
                   ELSE \E i \in FcOn(k) :
                           \A c \in FC_COLUMNS : flat_df.rows[n][c] = fc_df.rows[i][c]

\* A date of both inputs whose forecast row carries a value in obs_tmax_c
\* and whose historical row carries one in fc_tmax_c.
C3_Witness ==
    /\ Returned
    /\ \E d \in Days :
          /\ \E i \in HistOn(<<d>>) : notna(eccc_df.rows[i]["fc_tmax_c"])
          /\ \E i \in FcOn(<<d>>) : notna(fc_df.rows[i]["obs_tmax_c"])
          /\ OutOn(<<isoformat(d)>>) # {}

\* C4: data_type is "historical" when one of the three observed fields of
\* the output row is present, else "forecast" when one of its three forecast
\* fields is, else "unknown"; source is then the source label of a
\* historical row of that date, of a forecast row of that date, or absent.
C4_ClassificationPrecedence ==
    Returned =>
        \A n \in 1..Len(flat_df.rows) :
            /\ flat_df.rows[n]["data_type"] =
                  IF \E c \in OBS_COLUMNS : notna(flat_df.rows[n][c]) THEN <<"historical">>
                  ELSE IF \E c \in FC_COLUMNS : notna(flat_df.rows[n][c]) THEN <<"forecast">>
                  ELSE <<"unknown">>
            /\ \E k \in DateCells :
                  /\ DateString(k) = flat_df.rows[n]["date"]
                  /\ flat_df.rows[n]["data_type"] = <<"historical">> =>
                        \E i \in HistOn(k) : flat_df.rows[n]["source"] = eccc_df.rows[i]["source"]
                  /\ flat_df.rows[n]["data_type"] = <<"forecast">> =>
                        \E i \in FcOn(k) : flat_df.rows[n]["source"] = fc_df.rows[i]["source"]
                  /\ flat_df.rows[n]["data_type"] = <<"unknown">> =>
                        flat_df.rows[n]["source"] = NaN

\* A row with an observed and a forecast maximum, classified historical, and
\* a row without any value, whose input label was "historical".
C4_Witness ==
    /\ Returned
    /\ \E n \in 1..Len(flat_df.rows) :
          /\ notna(flat_df.rows[n]["obs_tmax_c"]) /\ notna(flat_df.rows[n]["fc_tmax_c"])
          /\ flat_df.rows[n]["data_type"] = <<"historical">>
    /\ \E n \in 1..Len(flat_df.rows) : flat_df.rows[n]["data_type"] = <<"unknown">>

\* C5 as claimed: with a forecast table of zero rows the call returns, the
\* output holds exactly one row per historical date, no forecast value, and
\* data_type "historical" in every row.
C5_EmptyForecastAllHistorical ==
    (pc = "done" /\ fc_df.rows = <<>>) =>
        /\ raised = ""
        /\ \A d \in Days : HistOn(<<d>>) # {} => Cardinality(OutOn(<<isoformat(d)>>)) = 1
        /\ \A n \in 1..Len(flat_df.rows) :
              /\ \A c \in FC_COLUMNS : flat_df.rows[n][c] = NaN
              /\ flat_df.rows[n]["data_type"] = <<"historical">>

\* C5 as amended: with a forecast table of zero rows the call returns, the
\* output holds one row per historical input row, no forecast value, and the
\* data_type is "historical" in the rows with an observed value and
\* "unknown" in the rows whose three observed values are absent.
C5_EmptyForecastPassThrough ==
    (pc = "done" /\ fc_df.rows = <<>>) =>
        /\ raised = ""
        /\ Len(flat_df.rows) = Len(eccc_df.rows)
        /\ \A k \in DateCells : Cardinality(OutOn(DateString(k))) = Cardinality(HistOn(k))
        /\ \A n \in 1..Len(flat_df.rows) :
              /\ \A c \in FC_COLUMNS : flat_df.rows[n][c] = NaN
              /\ flat_df.rows[n]["data_type"] =
                    IF \E c \in OBS_COLUMNS : notna(flat_df.rows[n][c])
                    THEN <<"historical">> ELSE <<"unknown">>

\* No forecast row, a historical row with a value and one without any.
C5_Witness ==
    /\ Returned /\ fc_df.rows = <<>>
    /\ \E i \in 1..Len(eccc_df.rows) : \A c \in OBS_COLUMNS : eccc_df.rows[i][c] = NaN
    /\ \E n \in 1..Len(flat_df.rows) : flat_df.rows[n]["data_type"] = <<"historical">>

\* C6 as claimed: the rows whose date cannot be parsed are dropped, so that
\* no output row has an absent date.
C6_NoAbsentDate ==
    Returned => \A n \in 1..Len(flat_df.rows) : notna(flat_df.rows[n]["date"])

\* C6 as amended: the call returns and no input row is dropped: every
\* historical and every forecast row has an output row with its values and
\* with its date, which is absent when the row's date cannot be parsed.
C6_NoRowDropped ==
    (pc = "done") =>
        /\ raised = ""
        /\ \A i \in 1..Len(eccc_df.rows) :
              \E n \in 1..Len(flat_df.rows) :
                  /\ flat_df.rows[n]["date"] =
                        IF Len(eccc_df.rows[i]["date"]) = 1
                        THEN <<isoformat(eccc_df.rows[i]["date"][1])>> ELSE NaN
                  /\ \A c \in OBS_COLUMNS : flat_df.rows[n][c] = eccc_df.rows[i][c]
        /\ \A i \in 1..Len(fc_df.rows) :
              \E n \in 1..Len(flat_df.rows) :
                  /\ flat_df.rows[n]["date"] =
                        IF Len(fc_df.rows[i]["date"]) = 1
                        THEN <<isoformat(fc_df.rows[i]["date"][1])>> ELSE NaN
                  /\ \A c \in FC_COLUMNS : flat_df.rows[n][c] = fc_df.rows[i][c]

\* A historical row without a parseable date, in the output without a date.
C6_Witness ==
    /\ Returned
    /\ \E i \in 1..Len(eccc_df.rows) : eccc_df.rows[i]["date"] = NaN
    /\ \E n \in 1..Len(flat_df.rows) :
          flat_df.rows[n]["date"] = NaN /\ notna(flat_df.rows[n]["obs_tmax_c"])

\* C7: given two tables that each have a date column, whatever other columns
\* they have, the call raises nothing and returns a table whose columns are
\* the ten canonical fields in their order.
C7_SchemaComplete ==
    (pc = "done" /\ HasDate(eccc_df) /\ HasDate(fc_df)) =>
        /\ raised = ""
        /\ flat_df.columns = FLAT_COLUMNS
        /\ \A n \in 1..Len(flat_df.rows) : DOMAIN flat_df.rows[n] = Range(FLAT_COLUMNS)

\* Two tables with a date column, the historical one without ingested_at:
\* the call ends in an AttributeError.
C7_Witness ==
    /\ pc = "done"
    /\ HasDate(eccc_df) /\ HasDate(fc_df)
    /\ "ingested_at" \notin Range(eccc_df.columns)
    /\ raised = "AttributeError"

\* The output before the final sort, in the order of the join.
PreSort == normalized(drop_temporary(resolved(pd_merge(eccc_df, fc_df).df)))

PHASES == <<"ingest_eccc", "ingest_openmeteo", "merge_flat", "to_csv", "export">>

IsPrefix(s, t) == Len(s) <= Len(t) /\ \A i \in 1..Len(s) : s[i] = t[i]

\* C10: the calls of a run are made in the order ingest_eccc,
\* ingest_openmeteo, merge_flat, to_csv, export; merge_flat is called only
\* with the frames both ingestions returned, and never with a forecast frame
\* of zero rows; a run whose ingestion failed has ended, without a merge, a
\* CSV file or an export.
C10_PipelineOrder ==
    /\ IsPrefix(trace, PHASES)
    /\ Len(trace) >= 3 =>
          /\ eccc_df # NoFrame /\ fc_df # NoFrame
          /\ fc_df.rows # <<>>
    /\ (eccc_df = NoFrame \/ fc_df = NoFrame) => Len(trace) <= 2
    /\ pc = "ingestion_failed" =>
          /\ Len(trace) <= 2
          /\ flat_df = NoFrame /\ csv_file = NoFrame /\ exported = NoFrame
          /\ ~ENABLED Next
    /\ pc = "finished" => trace = PHASES /\ csv_file = flat_df /\ exported = flat_df

\* A run that ended because Open-Meteo returned no daily entry.
C10_Witness ==
    /\ pc = "ingestion_failed"
    /\ raised = "RuntimeError"
    /\ trace = <<"ingest_eccc", "ingest_openmeteo">>

====
